---- MODULE Spec2Model ----
(***************************************************************************)
(* telegram_handler: a bounded text buffer (MessageBuffer) written by      *)
(* producer threads through TelegramLoggingHandler.emit, drained by one    *)
(* worker thread (_write_manager) that sends each chunk with the retry     *)
(* decorator (TelegramLoggingHandler.write), and stopped by close.         *)
(*                                                                         *)
(* Threads interleave between the attribute reads and attribute writes of  *)
(* MessageBuffer: the class takes no lock (its Event named lock is never   *)
(* used), so every load and every store of self.buffer is its own step.    *)
(***************************************************************************)
EXTENDS Integers, Sequences, FiniteSets

\* ---------------------------------------------------------------- constants
\* telegram_handler/consts.py (scaled down; the file sets positive integers)
MAX_BUFFER_SIZE == 2
MAX_MESSAGE_SIZE == 1
MAX_RETRYS == 3
RETRY_COOLDOWN_TIME == 1
RETRY_BACKOFF_TIME == 2

\* ------------------------------------------------------------------- bounds
MaxWrites == 2          \* write calls in one behaviour

\* lengths of the texts written: every length that fits the buffer, and one
\* that does not (all longer texts take the same branch of write)
TextLens == 1..(MAX_BUFFER_SIZE + 1)

Producers == {"p1", "p2"}
Closers == {"c1"}

\* the threads that may call close: the one of Closers, and one more for the
\* behaviours in which close is called twice
CloseThreads == Closers \cup {"c2"}

\* HTTP outcomes of one requests.post: 0 stands for a transport error
\* (requests.exceptions.ConnectionError and the like), the rest are statuses.
NetworkError == 0
Responses == {NetworkError, 200, 400, 429, 503}

VARIABLES
    buffer,     \* MessageBuffer.buffer
    ppc,        \* producer -> position inside MessageBuffer.write
    pmsg,       \* producer -> the message argument of its write call
    ptmp,       \* producer -> the value of self.buffer it loaded for +=
    nwrites,    \* number of write calls made so far (names the texts)
    wpc,        \* position of the worker thread in _write_manager
    wmsg,       \* worker: local message
    wtmp,       \* worker: the value of self.buffer loaded for buffer[size:]
    tries,      \* retry decorator: _tries
    delay,      \* retry decorator: _delay
    lastResp,   \* response of the latest failed attempt of the running Send
    lock,       \* owner of _stop_signal (an RLock): "free", "worker" or a closer
    cpc,        \* closer -> position inside close
    written,    \* history: concatenation of the texts appended by completed writes
    chunks,     \* history: the non-empty chunks returned by read
    sent,       \* history: the payloads passed to TelegramLoggingHandler.write
    delivered,  \* history: the payloads whose request succeeded
    delays,     \* history: delays slept by the running Send
    attempts,   \* history: requests posted by the latest Send
    logged,     \* history: the kinds of records written to the module logger
    overflowEvents, \* history: number of buffer-overflow events reported
    preClose,   \* history: texts whose write completed before close was first called
    overflowed, \* history: flush has cleared the buffer (write's overflow branch)
    sendFailed  \* history: some Send ended in failure

vars == <<buffer, ppc, pmsg, ptmp, nwrites, wpc, wmsg, wtmp, tries, delay,
          lastResp, lock, cpc, written, chunks, sent, delivered, delays,
          attempts, logged, overflowEvents, preClose, overflowed, sendFailed>>

prodVars == <<ppc, pmsg, ptmp, nwrites>>
workVars == <<wpc, wmsg, wtmp, tries, delay, lastResp>>
histSend == <<chunks, sent, delivered, delays, attempts, logged, sendFailed>>

\* ------------------------------------------------------------------ helpers
Min(a, b) == IF a <= b THEN a ELSE b

\* s[:n] for n >= 0
Take(s, n) == SubSeq(s, 1, Min(n, Len(s)))

\* variant of Drop: the slice starts one character too far, s[n+1:]
DropOneMore(s, n) == SubSeq(s, Min(n, Len(s)) + 2, Len(s))

\* s[n:] for n >= 0
Drop(s, n) == SubSeq(s, Min(n, Len(s)) + 1, Len(s))

\* the text of the w-th write call: n characters, all marked with w
Text(w, n) == [i \in 1..n |-> w]

Range(s) == {s[i] : i \in DOMAIN s}

RECURSIVE Flatten(_)
Flatten(ss) == IF ss = <<>> THEN <<>> ELSE Head(ss) \o Flatten(Tail(ss))

IsPrefix(s, t) == Len(s) <= Len(t) /\ SubSeq(t, 1, Len(s)) = s

\* response.raise_for_status() raises HTTPError for 4xx and 5xx; the explicit
\* too_many_requests test raises as well; requests.post raises on transport
\* errors.  All are requests.exceptions.RequestException.
RaisesRequestException(r) ==
    \/ r = NetworkError
    \/ (400 <= r /\ r < 600)
    \/ r = 429

Terminated == {"done", "crashed"}

\* --------------------------------------------------------------------- Init
Init ==
    /\ buffer = <<>>
    /\ ppc = [p \in Producers |-> "idle"]
    /\ pmsg = [p \in Producers |-> <<>>]
    /\ ptmp = [p \in Producers |-> <<>>]
    /\ nwrites = 0
    /\ wpc = "check"
    /\ wmsg = <<>>
    /\ wtmp = <<>>
    /\ tries = 0
    /\ delay = 0
    /\ lastResp = 200
    /\ lock = "free"
    /\ cpc = [c \in CloseThreads |-> "idle"]
    /\ written = <<>>
    /\ chunks = <<>>
    /\ sent = <<>>
    /\ delivered = <<>>
    /\ delays = <<>>
    /\ attempts = 0
    /\ logged = {}
    /\ overflowEvents = 0
    /\ preClose = {}
    /\ overflowed = FALSE
    /\ sendFailed = FALSE

\* ---------------------------------------------------------------- producers
\* variant of WriteCheck: write waits while the worker is inside a Send (as
\* if one lock were held around both the buffer and the request)
WriteCheckWaitsForSend(p, n) ==
    /\ wpc \notin {"attempt", "backoff"}
    /\ ppc[p] = "idle"
    /\ nwrites < MaxWrites
    /\ nwrites' = nwrites + 1
    /\ pmsg' = [pmsg EXCEPT ![p] = Text(nwrites + 1, n)]
    /\ ppc' = [ppc EXCEPT ![p] =
                 IF Len(buffer) + n <= MAX_BUFFER_SIZE THEN "load" ELSE "flush"]
    /\ UNCHANGED <<buffer, ptmp, workVars, lock, cpc, written, histSend,
                   preClose, overflowed, overflowEvents>>

\* emit -> MessageBuffer.write(message), line 13: the capacity test reads
\* len(self.buffer) once and selects the branch.
WriteCheck(p, n) ==
    /\ ppc[p] = "idle"
    /\ nwrites < MaxWrites
    /\ nwrites' = nwrites + 1
    /\ pmsg' = [pmsg EXCEPT ![p] = Text(nwrites + 1, n)]
    /\ ppc' = [ppc EXCEPT ![p] =
                 IF Len(buffer) + n <= MAX_BUFFER_SIZE THEN "load" ELSE "flush"]
    /\ UNCHANGED <<buffer, ptmp, workVars, lock, cpc, written, histSend,
                   preClose, overflowed,
                   overflowEvents>>

\* line 14, self.buffer += message: the load of self.buffer
WriteLoad(p) ==
    /\ ppc[p] = "load"
    /\ ptmp' = [ptmp EXCEPT ![p] = buffer]
    /\ ppc' = [ppc EXCEPT ![p] = "store"]
    /\ UNCHANGED <<buffer, pmsg, nwrites, workVars, lock, cpc, written,
                   histSend, preClose, overflowed,
                   overflowEvents>>

\* line 14, self.buffer += message: the store of the concatenation
WriteStore(p) ==
    /\ ppc[p] = "store"
    /\ buffer' = ptmp[p] \o pmsg[p]
    /\ written' = written \o pmsg[p]
    /\ ppc' = [ppc EXCEPT ![p] = "idle"]
    /\ ptmp' = [ptmp EXCEPT ![p] = <<>>]
    /\ pmsg' = [pmsg EXCEPT ![p] = <<>>]
    /\ UNCHANGED <<nwrites, workVars, lock, cpc, histSend, preClose,
                   overflowed,
                   overflowEvents>>

\* MessageBuffer.flush, called from the else branch of write
flush(p) ==
    /\ ppc[p] = "flush"
    /\ buffer' = <<>>
    /\ overflowed' = TRUE
    /\ ppc' = [ppc EXCEPT ![p] = "idle"]
    /\ pmsg' = [pmsg EXCEPT ![p] = <<>>]
    /\ UNCHANGED <<ptmp, nwrites, workVars, lock, cpc, written,
                   histSend, preClose, overflowEvents>>

\* ------------------------------------------------------------------- worker
\* variant of StopCheck: the acquire blocks (acquire() in place of
\* acquire(blocking=False)), so the loop never sees the lock taken
StopCheckBlocking ==
    /\ wpc = "check"
    /\ lock = "free"
    /\ lock' = "worker"
    /\ wpc' = "release"
    /\ UNCHANGED <<buffer, prodVars, wmsg, wtmp, tries, delay, lastResp, cpc,
                   written, histSend, preClose, overflowed, overflowEvents>>

\* _write_manager lines 103-105: non-blocking acquire of _stop_signal
StopCheck ==
    /\ wpc = "check"
    /\ IF lock = "free"
          THEN lock' = "worker" /\ wpc' = "release"
          ELSE lock' = lock /\ wpc' = "done"
    /\ UNCHANGED <<buffer, prodVars, wmsg, wtmp, tries, delay, lastResp, cpc,
                   written, histSend, preClose, overflowed,
                   overflowEvents>>

\* line 107
StopRelease ==
    /\ wpc = "release"
    /\ lock' = "free"
    /\ wpc' = "sleep"
    /\ UNCHANGED <<buffer, prodVars, wmsg, wtmp, tries, delay, lastResp, cpc,
                   written, histSend, preClose, overflowed,
                   overflowEvents>>

\* line 109, sleep(FLUSH_INTERVAL), a plain sleep that ends only by itself,
\* then MessageBuffer.read line 19: message = self.buffer[:size]
SleepThenTake ==
    /\ wpc = "sleep"
    /\ wmsg' = Take(buffer, MAX_MESSAGE_SIZE)
    /\ wpc' = "read_load"
    /\ UNCHANGED <<buffer, prodVars, wtmp, tries, delay, lastResp, lock, cpc,
                   written, histSend, preClose, overflowed,
                   overflowEvents>>

\* line 20, the load of self.buffer
ReadLoad ==
    /\ wpc = "read_load"
    /\ wtmp' = buffer
    /\ wpc' = "read_store"
    /\ UNCHANGED <<buffer, prodVars, wmsg, tries, delay, lastResp, lock, cpc,
                   written, histSend, preClose, overflowed,
                   overflowEvents>>

\* line 20, the store of self.buffer[size:], the return of read, and the
\* test of _write_manager line 111; a non-empty message enters the retry
\* wrapper of write, which starts with _tries, _delay = tries, delay
ReadStore ==
    /\ wpc = "read_store"
    /\ buffer' = Drop(wtmp, MAX_MESSAGE_SIZE)
    /\ wtmp' = <<>>
    /\ IF wmsg # <<>>
          THEN /\ chunks' = Append(chunks, wmsg)
               /\ sent' = Append(sent, wmsg)
               /\ tries' = MAX_RETRYS
               /\ delay' = RETRY_COOLDOWN_TIME
               /\ delays' = <<>>
               /\ attempts' = 0
               /\ wpc' = "attempt"
          ELSE /\ UNCHANGED <<chunks, sent, tries, delay, delays, attempts>>
               /\ wpc' = "check"
    /\ UNCHANGED <<prodVars, wmsg, lastResp, lock, cpc, written, delivered,
                   logged, sendFailed, preClose, overflowed,
                   overflowEvents>>

\* variant of Attempt: when the tries are used up the message is put back
\* at the head of the buffer before the exception leaves write
AttemptRequeue(r) ==
    /\ wpc = "attempt"
    /\ IF tries = 0 \/ ~RaisesRequestException(r)
          THEN /\ delivered' = IF tries = 0 THEN delivered
                                            ELSE Append(delivered, wmsg)
               /\ wpc' = "check"
               /\ wmsg' = <<>>
               /\ tries' = 0
               /\ delay' = 0
               /\ lastResp' = 200
               /\ delays' = <<>>
               /\ UNCHANGED <<buffer, logged, sendFailed>>
          ELSE IF tries - 1 = 0
          THEN /\ wpc' = "crashed"
               /\ sendFailed' = TRUE
               /\ buffer' = wmsg \o buffer
               /\ tries' = 0
               /\ delay' = 0
               /\ lastResp' = 200
               /\ delays' = <<>>
               /\ wmsg' = <<>>
               /\ UNCHANGED <<delivered, logged>>
          ELSE /\ wpc' = "backoff"
               /\ tries' = tries - 1
               /\ lastResp' = r
               /\ logged' = logged \cup {"retry"}
               /\ UNCHANGED <<buffer, wmsg, delay, delivered, sendFailed, delays>>
    /\ attempts' = IF tries = 0 THEN attempts ELSE attempts + 1
    /\ UNCHANGED <<prodVars, wtmp, lock, cpc, written, chunks,
                   sent, preClose, overflowed, overflowEvents>>

\* variant of Attempt: the tries are tested before they are counted down,
\* so one more request is posted before the exception leaves write
AttemptOneMore(r) ==
    /\ wpc = "attempt"
    /\ IF ~RaisesRequestException(r)
          THEN /\ delivered' = Append(delivered, wmsg)
               /\ wpc' = "check"
               /\ wmsg' = <<>>
               /\ tries' = 0
               /\ delay' = 0
               /\ lastResp' = 200
               /\ delays' = <<>>
               /\ UNCHANGED <<logged, sendFailed>>
          ELSE IF tries = 0
          THEN /\ wpc' = "crashed"
               /\ sendFailed' = TRUE
               /\ tries' = 0
               /\ delay' = 0
               /\ lastResp' = 200
               /\ delays' = <<>>
               /\ wmsg' = <<>>
               /\ UNCHANGED <<delivered, logged>>
          ELSE /\ wpc' = "backoff"
               /\ tries' = tries - 1
               /\ lastResp' = r
               /\ logged' = logged \cup {"retry"}
               /\ UNCHANGED <<wmsg, delay, delivered, sendFailed, delays>>
    /\ attempts' = attempts + 1
    /\ UNCHANGED <<buffer, prodVars, wtmp, lock, cpc, written, chunks,
                   sent, preClose, overflowed, overflowEvents>>

\* one pass of the retry loop (while _tries) around lines 83-90 with the
\* endpoint answering r: return on success; on RequestException count the
\* try down, re-raise when none is left, else log a warning and go to sleep
Attempt(r) ==
    /\ wpc = "attempt"
    /\ IF tries = 0 \/ ~RaisesRequestException(r)
          THEN /\ delivered' = IF tries = 0 THEN delivered
                                            ELSE Append(delivered, wmsg)
               /\ wpc' = "check"
               /\ wmsg' = <<>>
               /\ tries' = 0
               /\ delay' = 0
               /\ lastResp' = 200
               /\ delays' = <<>>
               /\ UNCHANGED <<logged, sendFailed>>
          ELSE IF tries - 1 = 0
          THEN /\ wpc' = "crashed"
               /\ sendFailed' = TRUE
               /\ tries' = 0
               /\ delay' = 0
               /\ lastResp' = 200
               /\ delays' = <<>>
               /\ wmsg' = <<>>
               /\ UNCHANGED <<delivered, logged>>
          ELSE /\ wpc' = "backoff"
               /\ tries' = tries - 1
               /\ lastResp' = r
               /\ logged' = logged \cup {"retry"}
               /\ UNCHANGED <<wmsg, delay, delivered, sendFailed, delays>>
    /\ attempts' = IF tries = 0 THEN attempts ELSE attempts + 1
    /\ UNCHANGED <<buffer, prodVars, wtmp, lock, cpc, written, chunks,
                   sent, preClose, overflowed,
                   overflowEvents>>

\* variant of Backoff: the delay is not scaled after the sleep
BackoffConstant ==
    /\ wpc = "backoff"
    /\ delays' = Append(delays, delay)
    /\ wpc' = "attempt"
    /\ UNCHANGED <<buffer, prodVars, wmsg, wtmp, tries, delay, lastResp, lock,
                   cpc, written, chunks, sent, delivered, attempts, logged,
                   sendFailed, preClose, overflowed, overflowEvents>>

\* retry decorator: time.sleep(_delay); _delay *= backoff
Backoff ==
    /\ wpc = "backoff"
    /\ delays' = Append(delays, delay)
    /\ delay' = delay * RETRY_BACKOFF_TIME
    /\ wpc' = "attempt"
    /\ UNCHANGED <<buffer, prodVars, wmsg, wtmp, tries, lastResp, lock, cpc,
                   written, chunks, sent, delivered, attempts, logged,
                   sendFailed, preClose, overflowed,
                   overflowEvents>>

\* -------------------------------------------------------------------- close
\* a thread calls close
CloseCall(c) ==
    /\ cpc[c] = "idle"
    /\ cpc' = [cpc EXCEPT ![c] = "acquire"]
    /\ preClose' = IF \A d \in CloseThreads : cpc[d] = "idle"
                      THEN Range(written) ELSE preClose
    /\ UNCHANGED <<buffer, prodVars, workVars, lock, written, histSend,
                   overflowed,
                   overflowEvents>>

\* line 97, with self._stop_signal: blocks while another thread owns the lock
CloseAcquire(c) ==
    /\ cpc[c] = "acquire"
    /\ lock = "free"
    /\ lock' = c
    /\ cpc' = [cpc EXCEPT ![c] = "join"]
    /\ UNCHANGED <<buffer, prodVars, workVars, written, histSend, preClose,
                   overflowed,
                   overflowEvents>>

\* line 98, self._writer_thread.join(): blocks until the thread has ended
CloseJoin(c) ==
    /\ cpc[c] = "join"
    /\ wpc \in Terminated
    /\ cpc' = [cpc EXCEPT ![c] = "release"]
    /\ UNCHANGED <<buffer, prodVars, workVars, lock, written, histSend,
                   preClose, overflowed,
                   overflowEvents>>

\* variant of CloseRelease: close returns with the lock still held (an
\* acquire() without the with block or a release)
CloseReturnHoldingLock(c) ==
    /\ cpc[c] = "release"
    /\ cpc' = [cpc EXCEPT ![c] = "returned"]
    /\ UNCHANGED <<buffer, prodVars, workVars, lock, written, histSend,
                   preClose, overflowed, overflowEvents>>

\* the end of the with block releases the lock, and close returns
CloseRelease(c) ==
    /\ cpc[c] = "release"
    /\ lock' = "free"
    /\ cpc' = [cpc EXCEPT ![c] = "returned"]
    /\ UNCHANGED <<buffer, prodVars, workVars, written, histSend, preClose,
                   overflowed,
                   overflowEvents>>

\* --------------------------------------------------------------------- Next
ProducerStep(p) ==
    \/ \E n \in TextLens : WriteCheck(p, n)
    \/ WriteLoad(p)
    \/ WriteStore(p)
    \/ flush(p)

WorkerStep ==
    \/ StopCheck
    \/ StopRelease
    \/ SleepThenTake
    \/ ReadLoad
    \/ ReadStore
    \/ \E r \in Responses : Attempt(r)
    \/ Backoff

CloseStep(c) ==
    \/ CloseCall(c)
    \/ CloseAcquire(c)
    \/ CloseJoin(c)
    \/ CloseRelease(c)

Next ==
    \/ \E p \in Producers : ProducerStep(p)
    \/ WorkerStep
    \/ \E c \in Closers : CloseStep(c)

Spec == Init /\ [][Next]_vars

\* One producer thread, the worker and the closer.
NextOneProducer ==
    \/ ProducerStep("p1")
    \/ WorkerStep
    \/ \E c \in Closers : CloseStep(c)

SpecOneProducer == Init /\ [][NextOneProducer]_vars

\* The worker is a thread of its own and is scheduled fairly; a thread inside
\* close keeps running, and its blocking acquire is served at one of the
\* releases of the worker, which sleeps FLUSH_INTERVAL after each release.
\* Producers and the call of close are not obliged to happen.
Fairness ==
    /\ WF_vars(WorkerStep)
    /\ \A c \in Closers :
          /\ SF_vars(CloseAcquire(c))
          /\ WF_vars(CloseJoin(c))
          /\ WF_vars(CloseRelease(c))

FairSpec == SpecOneProducer /\ Fairness

\* close called twice, by one thread after the other has returned or by two
\* threads at once; the worker, and one producer thread that logs one record.
NextTwoCloses ==
    \/ ProducerStep("p1") /\ nwrites' <= 1
    \/ WorkerStep
    \/ \E c \in CloseThreads : CloseStep(c)

FairnessTwoCloses ==
    /\ WF_vars(WorkerStep)
    /\ \A c \in CloseThreads :
          /\ SF_vars(CloseAcquire(c))
          /\ WF_vars(CloseJoin(c))
          /\ WF_vars(CloseRelease(c))

SpecTwoCloses == Init /\ [][NextTwoCloses]_vars /\ FairnessTwoCloses

\* ------------------------------------------------- MessageBuffer, one thread
\* The calls of MessageBuffer run one after the other by a single thread,
\* with any size argument for read.
ReadSizes == 0..(MAX_BUFFER_SIZE + 1)

bufFrame == <<ppc, pmsg, ptmp, wpc, tries, delay, lastResp, lock, cpc, sent,
              delivered, delays, attempts, logged, overflowEvents, preClose,
              sendFailed>>

\* variant of BufWrite: the message is put in front of the content
\* (self.buffer = message + self.buffer)
BufWritePrepend(n) ==
    /\ nwrites < MaxWrites
    /\ nwrites' = nwrites + 1
    /\ IF Len(buffer) + n <= MAX_BUFFER_SIZE
          THEN /\ buffer' = Text(nwrites + 1, n) \o buffer
               /\ written' = written \o Text(nwrites + 1, n)
               /\ UNCHANGED overflowed
          ELSE /\ buffer' = <<>>
               /\ overflowed' = TRUE
               /\ UNCHANGED written
    /\ UNCHANGED <<wmsg, wtmp, chunks, bufFrame>>

\* MessageBuffer.write(message) with a message of n characters
BufWrite(n) ==
    /\ nwrites < MaxWrites
    /\ nwrites' = nwrites + 1
    /\ IF Len(buffer) + n <= MAX_BUFFER_SIZE
          THEN /\ buffer' = buffer \o Text(nwrites + 1, n)
               /\ written' = written \o Text(nwrites + 1, n)
               /\ UNCHANGED overflowed
          ELSE /\ buffer' = <<>>
               /\ overflowed' = TRUE
               /\ UNCHANGED written
    /\ UNCHANGED <<wmsg, wtmp, chunks, bufFrame>>

\* MessageBuffer.read(size): wmsg is the message returned, wtmp keeps the
\* content the call found
BufRead(n) ==
    /\ wmsg' = Take(buffer, n)
    /\ wtmp' = buffer
    /\ buffer' = Drop(buffer, n)
    /\ chunks' = IF Take(buffer, n) # <<>> THEN Append(chunks, Take(buffer, n))
                                         ELSE chunks
    /\ UNCHANGED <<nwrites, written, overflowed, bufFrame>>

\* MessageBuffer.flush()
BufFlush ==
    /\ buffer' = <<>>
    /\ overflowed' = TRUE
    /\ UNCHANGED <<nwrites, written, wmsg, wtmp, chunks, bufFrame>>

NextBuffer ==
    \/ \E n \in TextLens : BufWrite(n)
    \/ \E n \in ReadSizes : BufRead(n)
    \/ BufFlush

SpecBuffer == Init /\ [][NextBuffer]_vars

\* ------------------------------------------------------------------- claims
FatalStatuses == {400}

\* C1: after any MessageBuffer operation completes, len(buffer) <= max_size,
\* for every interleaving of write calls of several producer threads with
\* the reads of the worker and with flush.
C1_BufferWithinCapacity == Len(buffer) <= MAX_BUFFER_SIZE

\* C2: with one producer thread and the worker, and no write taking the
\* overflow branch, the chunks returned by read so far followed by the buffer
\* content are the texts of the completed writes, in write order.
C2_NoLossDupReorder ==
    ~overflowed => Flatten(chunks) \o buffer = written

\* C3: when the worker exits after close, no text whose write completed
\* before close was called is left in the buffer (a final read and send of
\* the remaining content has been made).
C3_FinalDrainOnStop ==
    wpc = "done" => Range(buffer) \cap preClose = {}

\* C4: after a Send ended in failure the worker loop keeps running (as long
\* as close has not been called).
C4_FailedSendKeepsWorker ==
    (sendFailed /\ \A c \in Closers : cpc[c] = "idle") => wpc \notin Terminated

\* C5: a write whose text fits the capacity but not the remaining room clears
\* the buffer and appends the text: the buffer is exactly the text afterwards.
C5_OverflowKeepsIncoming ==
    [][\A p \in Producers :
          (ppc[p] = "flush" /\ ppc'[p] = "idle"
             /\ Len(pmsg[p]) <= MAX_BUFFER_SIZE) => buffer' = pmsg[p]]_vars

\* C6: a write of a text longer than the capacity leaves the buffer empty and
\* reports exactly one overflow event.
C6_OversizeReportedOnce ==
    [][\A p \in Producers :
          (ppc[p] = "flush" /\ ppc'[p] = "idle"
             /\ Len(pmsg[p]) > MAX_BUFFER_SIZE)
          => (buffer' = <<>> /\ overflowEvents' = overflowEvents + 1)]_vars

\* C7: a response with a malformed-request or authentication status is never
\* retried: no retry delay follows it.
C7_FatalNotRetried ==
    wpc = "backoff" => lastResp \notin FatalStatuses

\* C8: whenever close has returned, the worker loop has observed the stop
\* signal and the worker thread has ended.
C8_CloseReturnsAfterStopObserved ==
    \A c \in Closers : cpc[c] = "returned" => wpc = "done"

\* join semantics alone: whenever close has returned the worker thread has
\* ended, whichever way it ended
CloseReturnsAfterWorkerEnded ==
    \A c \in Closers : cpc[c] = "returned" => wpc \in Terminated

\* C9: once close is called it returns, whatever the endpoint answers.
C9_CloseEventuallyReturns ==
    \A c \in Closers : (cpc[c] = "acquire") ~> (cpc[c] = "returned")

\* close has returned in a behaviour whose Send failed on every try
C9_Witness ==
    \E c \in Closers : cpc[c] = "returned" /\ sendFailed /\ sent # <<>>

\* C10: the step on which a Send ends in failure leaves the buffer as it is
\* (the chunk is not put back), and the payloads passed to Send are the
\* chunks taken from the buffer, each passed at most once.
C10_FailedChunkNotRequeued ==
    [][/\ (~sendFailed /\ sendFailed') => buffer' = buffer
       /\ IsPrefix(sent', chunks')]_vars

\* a Send has ended in failure while the buffer held text
C10_Witness ==
    sendFailed /\ buffer # <<>> /\ Len(sent) = Len(chunks)

\* C11: one Send posts at most MAX_RETRYS requests: a request is pending
\* only while fewer than MAX_RETRYS were posted and none has succeeded, and
\* a Send that ended in failure has posted exactly MAX_RETRYS.
C11_AtMostMaxRetrysAttempts ==
    /\ attempts <= MAX_RETRYS
    /\ wpc \in {"attempt", "backoff"} =>
          (attempts < MAX_RETRYS /\ Len(delivered) < Len(sent))
    /\ Len(delivered) <= Len(sent)
    /\ sendFailed => attempts = MAX_RETRYS

\* a Send has given up after MAX_RETRYS failed requests
C11_Witness ==
    sendFailed /\ attempts = MAX_RETRYS /\ Len(delivered) < Len(sent)

\* C12: in every state of the worker a producer is neither blocked nor
\* failed: a call of write can start, every started write can take its next
\* step, and a producer is never at any position but those of write.
C12_ProducerNeverBlocked ==
    \A p \in Producers :
        /\ ppc[p] \in {"idle", "load", "store", "flush"}
        /\ (ppc[p] = "idle" /\ nwrites < MaxWrites) =>
              \A n \in TextLens : ENABLED WriteCheck(p, n)
        /\ ppc[p] = "load" => ENABLED WriteLoad(p)
        /\ ppc[p] = "store" => ENABLED WriteStore(p)
        /\ ppc[p] = "flush" => ENABLED flush(p)

\* a write is under way after the worker thread ended on a failed Send,
\* with close never called
C12_Witness ==
    /\ wpc = "crashed"
    /\ \E p \in Producers : ppc[p] = "store"
    /\ \A c \in Closers : cpc[c] = "idle"

\* C13: read(n) on content c returns the first min(n, len(c)) characters of
\* c and leaves the rest of c in order; on empty content it returns the
\* empty text.
C13_ReadReturnsPrefix ==
    [][\A n \in ReadSizes :
          BufRead(n) =>
             /\ Len(wmsg') = (IF n <= Len(buffer) THEN n ELSE Len(buffer))
             /\ wmsg' \o buffer' = buffer
             /\ buffer = <<>> => wmsg' = <<>>]_vars

\* a read has returned a proper, non-empty prefix of the content it found
C13_Witness ==
    wmsg # <<>> /\ buffer # <<>> /\ wtmp = wmsg \o buffer

\* C14: from the empty buffer, after writes whose texts all fitted, a read of
\* capacity size returns the concatenation of the texts in write order and
\* leaves the buffer empty.
C14_RoundTrip ==
    [][(BufRead(MAX_BUFFER_SIZE) /\ chunks = <<>> /\ ~overflowed)
          => (wmsg' = written /\ buffer' = <<>>)]_vars

\* two different texts have been written and read back as one
C14_Witness ==
    /\ ~overflowed
    /\ Len(chunks) = 1
    /\ wmsg = written
    /\ buffer = <<>>
    /\ Len(written) = 2
    /\ written[1] # written[2]

\* C15: a second call of close (after the first has returned, or from a
\* second thread meanwhile) ends in the state the first call ends in: the
\* worker thread ended and the stop lock free whenever a call has returned
\* and no call is inside the lock, no step of close touching the buffer or
\* the worker; and the second call returns.
C15_CloseIdempotent ==
    /\ []((/\ \E c \in CloseThreads : cpc[c] = "returned"
           /\ \A c \in CloseThreads : cpc[c] \in {"idle", "acquire", "returned"})
          => (wpc \in Terminated /\ lock = "free"))
    /\ [][(\E c \in CloseThreads : cpc'[c] # cpc[c])
             => (buffer' = buffer /\ wpc' = wpc)]_vars
    /\ \A c \in CloseThreads :
          (cpc[c] = "acquire" /\ \E d \in CloseThreads \ {c} : cpc[d] # "idle")
             ~> (cpc[c] = "returned")

\* both calls of close have returned, with text in the buffer
C15_Witness ==
    /\ \A c \in CloseThreads : cpc[c] = "returned"
    /\ buffer # <<>>

\* C16: one record of at most MAX_MESSAGE_SIZE characters written to the
\* empty buffer, no Send having failed: once the write has returned, the
\* buffer is empty again and the worker is back in its interval wait, the
\* endpoint has received exactly that text, exactly once.
C16_SingleMessageDelivered ==
    (/\ nwrites = 1
     /\ ppc["p1"] = "idle"
     /\ written # <<>>
     /\ Len(written) <= MAX_MESSAGE_SIZE
     /\ ~overflowed
     /\ ~sendFailed
     /\ wpc = "sleep"
     /\ buffer = <<>>)
        => delivered = <<written>>

\* the threads that have read self.buffer inside MessageBuffer.write (flush
\* included) or MessageBuffer.read and not yet made the call's last store
InsideBuffer ==
    {p \in Producers : ppc[p] \in {"load", "store", "flush"}}
        \cup (IF wpc \in {"read_load", "read_store"} THEN {"worker"} ELSE {})

\* C17: at most one thread at a time is between the first read and the last
\* write of the buffer content inside write, read or flush.
C17_BufferMutualExclusion == Cardinality(InsideBuffer) <= 1

\* C18: when close holds the stop lock while the worker is in its interval
\* wait, the worker's next step does not take a chunk out of the buffer to
\* send it.
C18_StopInterruptsWait ==
    [][(wpc = "sleep" /\ lock \in CloseThreads)
          => ~(wpc' = "read_load" /\ wmsg' # <<>>)]_vars

\* C19: the step that ends the read of a flush tick leaves the buffer split
\* in two: the chunk of the tick is the first min(len, MAX_MESSAGE_SIZE)
\* characters of the content, the buffer keeps the rest, and the worker
\* enters write (Send) exactly when the chunk is not empty.
C19_TickTakesOneChunk ==
    [][(wpc = "read_store" /\ wpc' # "read_store")
          => /\ wmsg = Take(buffer, MAX_MESSAGE_SIZE)
             /\ buffer' = Drop(buffer, MAX_MESSAGE_SIZE)
             /\ (wpc' = "attempt") <=> (wmsg # <<>>)]_vars

RECURSIVE Pow(_, _)
Pow(b, e) == IF e = 0 THEN 1 ELSE b * Pow(b, e - 1)

\* C20: inside a Send, one delay has been slept per failed request, the i-th
\* of RETRY_COOLDOWN_TIME * RETRY_BACKOFF_TIME^(i-1); and a Send whose third
\* request is the first to succeed has slept exactly RETRY_COOLDOWN_TIME and
\* then RETRY_COOLDOWN_TIME * RETRY_BACKOFF_TIME, and delivers its message
\* once.
C20_BackoffSchedule ==
    /\ [](wpc \in {"attempt", "backoff"} =>
            /\ Len(delays) = (IF wpc = "attempt" THEN attempts ELSE attempts - 1)
            /\ \A i \in DOMAIN delays :
                  delays[i] = RETRY_COOLDOWN_TIME * Pow(RETRY_BACKOFF_TIME, i - 1))
    /\ [][(wpc = "attempt" /\ wpc' = "check" /\ attempts = 2)
             => /\ delays = <<RETRY_COOLDOWN_TIME,
                              RETRY_COOLDOWN_TIME * RETRY_BACKOFF_TIME>>
                /\ delivered' = Append(delivered, wmsg)
                /\ Len(delivered') = Len(sent)]_vars

\* a Send has ended with its third request, the first to succeed
C20_Witness ==
    /\ attempts = 3
    /\ wpc = "check"
    /\ ~sendFailed
    /\ delivered # <<>>
    /\ Len(delivered) = Len(sent)

====
